---- MODULE Spec2Model ----
(***************************************************************************)
(* The bookmark service of mark-book: the Bookmark table, the bookmark     *)
(* blueprint (create, list, get, edit, delete, stats) and the public       *)
(* redirect route, as a state machine over the rows of the table.          *)
(*                                                                         *)
(* A creation is split at its database round trips (url query, one         *)
(* short_url query per call of generate_short_char, INSERT + COMMIT), so   *)
(* that two creations interleave as two request threads do.  Each user is  *)
(* one client with at most one creation in flight.  The other handlers     *)
(* are one step each.                                                      *)
(***************************************************************************)
EXTENDS Integers, Sequences, FiniteSets, TLC

\* ---------------------------------------------------------------- bounds
\* Rows ever inserted (the autoincrement id stops here).
MaxBookmarks == 2
\* Nested calls of generate_short_char the interpreter allows before it
\* raises RecursionError (the interpreter's limit, scaled down).
RecursionLimit == 1

\* ------------------------------------------------------------ input sets
\* JWT identities (User.id values) the auth blueprint hands out.
Users == {1, 2}
ValidUrls == {"https://a.example", "https://b.example"}
\* "" is also what request.get_json().get('url', '') yields for a missing key.
InvalidUrls == {"", "not a url"}
Urls == ValidUrls \cup InvalidUrls
\* request.get_json().get('body', ''): creations leave the key out, edits send one.
CreateBodies == {""}
EditBodies == {"note"}

\* ------------------------------------------------------ status constants
HTTP_200_OK == 200
HTTP_201_CREATED == 201
HTTP_204_NO_CONTENT == 204
HTTP_302_FOUND == 302
HTTP_400_BAD_REQUEST == 400
HTTP_401_UNAUTHORIZED == 401
HTTP_404_NOT_FOUND == 404
HTTP_409_CONFLICT == 409
HTTP_500_INTERNAL_SERVER_ERROR == 500

\* ------------------------------------------------------- the Bookmark row
\* NULL in the short_url column (a tuple, like every other short_url value).
None == << >>
\* NULL in a DateTime column.
NoTime == "NULL"
\* datetime.now() in default= / onupdate= is evaluated once, at import.
ImportTime == "import_time"

\* The mapped attributes of a Bookmark instance.
Columns ==
    {"id", "body", "url", "short_url", "visit", "user_id", "created_at", "updated_at"}

\* hasattr(obj, name) on a Bookmark instance: reading any other attribute
\* raises AttributeError.
HasAttr(b, name) == name \in DOMAIN b

\* string.digits + string.ascii_letters
digits == {"0", "1", "2", "3", "4", "5", "6", "7", "8", "9"}
ascii_letters ==
    {"a", "b", "c", "d", "e", "f", "g", "h", "i", "j", "k", "l", "m",
     "n", "o", "p", "q", "r", "s", "t", "u", "v", "w", "x", "y", "z",
     "A", "B", "C", "D", "E", "F", "G", "H", "I", "J", "K", "L", "M",
     "N", "O", "P", "Q", "R", "S", "T", "U", "V", "W", "X", "Y", "Z"}
chars == digits \cup ascii_letters

\* k of random.choices(chars, k=3).
CodeLen == 3

\* The outcomes of random.choices the model draws from.
PickedChars == {<<"0", "0", "0">>, <<"a", "Z", "9">>}

\* request.url_root
url_root == <<"http://localhost/">>

\* A validator that lets every string through.
validators_url_any(u) == TRUE

\* validators.url(url)
validators_url(u) == u \in ValidUrls

\* ---------------------------------------------------------------- state
VARIABLES
    bookmarks,  \* the rows of the bookmark table
    nextId,     \* the id the next INSERT gets
    pc,         \* per client: where its creation request stands
    req,        \* per client: the locals of its creation request
    hits,       \* per row id: resolution requests that found the row (SpecResolve)
    last,       \* the request step just taken and its response, if it has one
    users,      \* the rows of the user table
    rpc,        \* per registering client: where its registration stands
    rreq        \* per registering client: the locals of its registration

\* What the bookmark views and the redirect route never touch.
authvars == <<users, rpc, rreq>>

vars == <<bookmarks, nextId, pc, req, hits, last, users, rpc, rreq>>

Ids == 1..MaxBookmarks

\* --------------------------------------------------------------- responses
Response(status, json) == [status |-> status, json |-> json]

\* A step of a request that has not answered yet.
Pending == Response(0, [pending |-> TRUE])

\* errorhandler(404)
page_not_found == Response(HTTP_404_NOT_FOUND, [Error |-> "Not found"])

\* errorhandler(500): what an unhandled exception in a view becomes.
server_error ==
    Response(HTTP_500_INTERNAL_SERVER_ERROR, [Error |-> "Issue on server occurred"])

\* jsonify({'item': "Not found"}), HTTP_404_NOT_FOUND
item_not_found == Response(HTTP_404_NOT_FOUND, [item |-> "Not found"])

\* Building the bookmark dict raises: request.url_root + None is a TypeError,
\* bookmark.visits is an AttributeError unless the instance has that attribute.
BookmarkDictRaises(b) == b.short_url = None \/ ~HasAttr(b, "visits")

\* The dict the create, get and edit views hand to jsonify.
BookmarkDict(b) ==
    [id |-> b.id, url |-> b.url, short_url |-> url_root \o b.short_url,
     visits |-> b["visits"], body |-> b.body,
     created_at |-> b.created_at, updated_at |-> b.updated_at]

\* jsonify({...bookmark...}), status, or the 500 of the exception.
bookmark_response(b, status) ==
    IF BookmarkDictRaises(b) THEN server_error ELSE Response(status, BookmarkDict(b))

Step(op, user, id, code, resp) ==
    [op |-> op, user |-> user, id |-> id, short_url |-> code, resp |-> resp]

\* ----------------------------------------------------------------- queries
\* The query with its filter dropped: Bookmark.query.first().
ByShortUrlUnfiltered(code) == bookmarks

\* Bookmark.query.filter_by(short_url=code)
ByShortUrl(code) == {b \in bookmarks : b.short_url # None /\ b.short_url = code}

\* Bookmark.query.filter_by(url=url)
ByUrl(url) == {b \in bookmarks : b.url = url}

\* The query without its owner filter: filter_by(id=id).
ByIdOnly(id, current_user) == {b \in bookmarks : b.id = id}

\* Bookmark.query.filter_by(id=id, user_id=current_user)
ByIdAndUser(id, current_user) ==
    {b \in bookmarks : b.id = id /\ b.user_id = current_user}

\* Bookmark.query.filter_by(user_id=current_user)
ByUser(current_user) == {b \in bookmarks : b.user_id = current_user}

\* ------------------------------------------------------------------- Init
NoReq == [url |-> "", body |-> "", depth |-> 0, short_url |-> None]

\* ------------------------------------------------------------ the User row
\* Users ever inserted that the model follows.
MaxUsers == 2

Usernames == {"alice", "bobby", "al"}
ValidEmails == {"a@x.org", "b@x.org"}
Emails == ValidEmails \cup {"nope"}
RegisterPasswords == {"secret1", "short"}
LoginPasswords == {"secret1", "hunter22"}
\* Clients that register; each has at most one registration in flight.
RegClients == {"c1", "c2"}

\* validators.email(email)
validators_email(e) == e \in ValidEmails

\* werkzeug's generate_password_hash / check_password_hash: the hash checks
\* against the password it was made from and against no other.
generate_password_hash(password) == <<"pbkdf2", password>>
check_password_hash(pwhash, password) == pwhash = <<"pbkdf2", password>>

\* User(username=username, password=pwd_hash, email=email) at INSERT.
NewUser(id, r) ==
    [id |-> id, username |-> r.username, email |-> r.email,
     password |-> generate_password_hash(r.password),
     created_at |-> ImportTime, updated_at |-> NoTime]

\* The two accounts the bookmark runs start from (JWT identities 1 and 2).
SeedUsers ==
    {NewUser(1, [username |-> "alice", email |-> "a@x.org", password |-> "secret1"]),
     NewUser(2, [username |-> "bobby", email |-> "b@x.org", password |-> "secret1"])}

NoReg == [username |-> "", email |-> "", password |-> ""]

\* The tables as db.create_all() leaves them, nothing in flight.
InitCommon ==
    /\ bookmarks = {}
    /\ nextId = 1
    /\ pc = [u \in Users |-> "idle"]
    /\ req = [u \in Users |-> NoReq]
    /\ hits = [i \in Ids |-> 0]
    /\ last = Step("start", 0, 0, None, Pending)
    /\ rpc = [c \in RegClients |-> "idle"]
    /\ rreq = [c \in RegClients |-> NoReg]

\* The bookmark runs: both accounts are registered.
Init == InitCommon /\ users = SeedUsers

\* The account runs: an empty user table.
InitAuth == InitCommon /\ users = {}

InFlight == {u \in Users : pc[u] # "idle"}

\* ---------------------------------------------------------------- creation
\* POST /api/v1/bookmarks/ up to the Bookmark constructor: the validator and
\* the url query.
create_begin(current_user, url, body) ==
    /\ pc[current_user] = "idle"
    /\ IF ~validators_url(url)
       THEN /\ last' = Step("create", current_user, 0, None,
                            Response(HTTP_400_BAD_REQUEST, [url |-> "No valid URL"]))
            /\ UNCHANGED <<pc, req>>
       ELSE IF ByUrl(url) # {}
       THEN /\ last' = Step("create", current_user, 0, None,
                            Response(HTTP_400_BAD_REQUEST, [url |-> <<"Already exists">>]))
            /\ UNCHANGED <<pc, req>>
       ELSE /\ nextId + Cardinality(InFlight) <= MaxBookmarks
            /\ pc' = [pc EXCEPT ![current_user] = "generate"]
            /\ req' = [req EXCEPT ![current_user] =
                          [url |-> url, body |-> body, depth |-> 0, short_url |-> None]]
            /\ last' = Step("create_begin", current_user, 0, None, Pending)
    /\ UNCHANGED <<bookmarks, nextId, hits, authvars>>

\* One call of Bookmark.generate_short_char: pick, query, then recurse or
\* return.  Only the outermost call's own pick reaches __init__: the value of
\* the recursive call is dropped, so a call that recursed returns None.
generate_short_char(current_user, picked_chars) ==
    /\ pc[current_user] = "generate"
    /\ IF ByShortUrl(picked_chars) # {}
       THEN IF req[current_user].depth >= RecursionLimit
            THEN \* RecursionError unwinds the request; nothing was added
                 /\ pc' = [pc EXCEPT ![current_user] = "idle"]
                 /\ req' = [req EXCEPT ![current_user] = NoReq]
                 /\ last' = Step("create", current_user, 0, None, server_error)
            ELSE /\ req' = [req EXCEPT ![current_user].depth = @ + 1]
                 /\ last' = Step("create_generate", current_user, 0, None, Pending)
                 /\ UNCHANGED pc
       ELSE /\ pc' = [pc EXCEPT ![current_user] = "commit"]
            /\ req' = [req EXCEPT ![current_user].short_url =
                          IF req[current_user].depth = 0 THEN picked_chars ELSE None]
            /\ last' = Step("create_generate", current_user, 0, None, Pending)
    /\ UNCHANGED <<bookmarks, nextId, hits, authvars>>

\* The row Bookmark(url=url, body=body, user_id=current_user) becomes at INSERT.
NewBookmark(id, current_user, r) ==
    [id |-> id, body |-> r.body, url |-> r.url, short_url |-> r.short_url,
     visit |-> 0, user_id |-> current_user,
     created_at |-> ImportTime, updated_at |-> NoTime]

\* db.session.add(bookmark); db.session.commit(); then the response.
create_commit(current_user) ==
    /\ pc[current_user] = "commit"
    /\ LET bookmark == NewBookmark(nextId, current_user, req[current_user])
       IN /\ bookmarks' = bookmarks \cup {bookmark}
          /\ last' = Step("create", current_user, bookmark.id, bookmark.short_url,
                          bookmark_response(bookmark, HTTP_201_CREATED))
    /\ nextId' = nextId + 1
    /\ pc' = [pc EXCEPT ![current_user] = "idle"]
    /\ req' = [req EXCEPT ![current_user] = NoReq]
    /\ UNCHANGED <<hits, authvars>>

\* ------------------------------------------------------------ list, stats
\* The rows of S in the order the table yields them (by primary key).
RECURSIVE InIdOrder(_)
InIdOrder(S) ==
    IF S = {} THEN << >>
    ELSE LET b == CHOOSE x \in S : \A y \in S : x.id <= y.id
         IN <<b>> \o InIdOrder(S \ {b})

\* query.paginate(page=page, per_page=per_page).items
PageItems(rows, page, per_page) ==
    SubSeq(rows, (page - 1) * per_page + 1,
           IF page * per_page < Len(rows) THEN page * per_page ELSE Len(rows))

Pages == {1, 2}
PerPages == {1, 2}

\* GET /api/v1/bookmarks/: paginate aborts with 404 on an empty page other
\* than the first; the loop over the items reads bookmark.visits.
list_bookmarks(current_user, page, per_page) ==
    /\ LET rows == InIdOrder(ByUser(current_user))
           items == PageItems(rows, page, per_page)
       IN last' = Step("list", current_user, 0, None,
              IF items = << >> /\ page # 1 THEN page_not_found
              ELSE IF \E i \in 1..Len(items) : BookmarkDictRaises(items[i])
              THEN server_error
              ELSE Response(HTTP_200_OK,
                       [results |-> [i \in 1..Len(items) |-> BookmarkDict(items[i])],
                        total |-> Len(rows), page |-> page]))
    /\ UNCHANGED <<bookmarks, nextId, pc, req, hits, authvars>>

\* GET /api/v1/bookmarks/stats
stats(current_user) ==
    /\ LET items == InIdOrder(ByUser(current_user))
       IN last' = Step("stats", current_user, 0, None,
              IF \E i \in 1..Len(items) : BookmarkDictRaises(items[i])
              THEN server_error
              ELSE Response(HTTP_200_OK,
                       [stats |-> [i \in 1..Len(items) |->
                           [visits |-> items[i]["visits"], url |-> items[i].url,
                            short |-> url_root \o items[i].short_url,
                            id |-> items[i].id]]]))
    /\ UNCHANGED <<bookmarks, nextId, pc, req, hits, authvars>>

\* ------------------------------------------------------ get, delete, edit
\* GET /api/v1/bookmarks/<id>
get_bookmark(current_user, id) ==
    /\ LET found == ByIdAndUser(id, current_user)
       IN IF found = {}
          THEN last' = Step("get", current_user, id, None, item_not_found)
          ELSE \E bookmark \in found :
                 last' = Step("get", current_user, id, None,
                              bookmark_response(bookmark, HTTP_200_OK))
    /\ UNCHANGED <<bookmarks, nextId, pc, req, hits, authvars>>

\* DELETE /api/v1/bookmarks/<id>
delete_bookmark(current_user, id) ==
    /\ LET found == ByIdAndUser(id, current_user)
       IN IF found = {}
          THEN /\ last' = Step("delete", current_user, id, None, item_not_found)
               /\ UNCHANGED bookmarks
          ELSE \E bookmark \in found :
                 /\ bookmarks' = bookmarks \ {bookmark}
                 /\ last' = Step("delete", current_user, id, None,
                                 Response(HTTP_204_NO_CONTENT, [empty |-> TRUE]))
    /\ UNCHANGED <<nextId, pc, req, hits, authvars>>

\* An edit that also counts as a visit.
EditedCountsVisit(bookmark, url, body) ==
    [bookmark EXCEPT !.url = url, !.body = body, !.visit = @ + 1]

\* An edit that builds the row anew, and so runs the short_url assignment again.
EditedAssignsCode(bookmark, url, body) ==
    [bookmark EXCEPT !.url = url, !.body = body, !.updated_at = ImportTime,
                     !.short_url = None]

\* bookmark.url = url; bookmark.body = body; db.session.commit(): the UPDATE
\* is emitted, and onupdate fills updated_at, only when a value changed.
Edited(bookmark, url, body) ==
    [bookmark EXCEPT
        !.url = url,
        !.body = body,
        !.updated_at = IF bookmark.url # url \/ bookmark.body # body
                       THEN ImportTime ELSE @]

\* PUT / PATCH /api/v1/bookmarks/<id>
edit_bookmark(current_user, id, url, body) ==
    /\ LET found == ByIdAndUser(id, current_user)
       IN IF found = {}
          THEN /\ last' = Step("edit", current_user, id, None, item_not_found)
               /\ UNCHANGED bookmarks
          ELSE IF ~validators_url(url)
          THEN /\ last' = Step("edit", current_user, id, None,
                               Response(HTTP_400_BAD_REQUEST, [url |-> "No valid URL"]))
               /\ UNCHANGED bookmarks
          ELSE \E bookmark \in found :
                 /\ bookmarks' = (bookmarks \ {bookmark}) \cup {Edited(bookmark, url, body)}
                 /\ last' = Step("edit", current_user, id, None,
                                 bookmark_response(Edited(bookmark, url, body), HTTP_200_OK))
    /\ UNCHANGED <<nextId, pc, req, hits, authvars>>

\* ---------------------------------------------------------------- redirect
\* Resolution requests per row the model follows.
MaxResolves == 2

\* link.visits += 1 on an instance that has the attribute.
Visited(link) == [link EXCEPT !["visits"] = @ + 1]

\* GET /<short_url>: first_or_404, then link.visits += 1, commit, redirect.
\* The read of link.visits raises AttributeError on an instance without that
\* attribute, before anything is written.
redirect_to_url(short_url) ==
    /\ LET found == ByShortUrl(short_url)
       IN IF found = {}
          THEN /\ last' = Step("redirect", 0, 0, short_url, page_not_found)
               /\ UNCHANGED bookmarks
          ELSE \E link \in found :
                 IF ~HasAttr(link, "visits")
                 THEN /\ last' = Step("redirect", 0, link.id, short_url, server_error)
                      /\ UNCHANGED bookmarks
                 ELSE /\ bookmarks' = (bookmarks \ {link}) \cup {Visited(link)}
                      /\ last' = Step("redirect", 0, link.id, short_url,
                                      Response(HTTP_302_FOUND, [Location |-> link.url]))
    /\ UNCHANGED <<nextId, pc, req, authvars>>

\* A resolution request, not counted (hits is followed in SpecResolve only).
resolve(short_url) == redirect_to_url(short_url) /\ UNCHANGED hits

\* A resolution request, counted in hits when it found a row.
resolve_counted(short_url) ==
    /\ redirect_to_url(short_url)
    /\ \A b \in ByShortUrl(short_url) : hits[b.id] < MaxResolves
    /\ hits' = IF last'.id = 0 THEN hits ELSE [hits EXCEPT ![last'.id] = @ + 1]

\* -------------------------------------------------------- register, login
AuthStep(op, email, resp) ==
    [op |-> op, user |-> 0, id |-> 0, short_url |-> None, resp |-> resp,
     email |-> email]

ErrorResponse(status, message) == Response(status, [error |-> message])

\* User.query.filter_by(email=email)
UserByEmail(email) == {x \in users : x.email = email}

\* User.query.filter_by(username=username)
UserByUsername(username) == {x \in users : x.username = username}

RegInFlight == {c \in RegClients : rpc[c] # "idle"}

\* POST /api/v1/auth/register up to and with the email query.
register_begin(c, username, email, password) ==
    /\ rpc[c] = "idle"
    /\ IF Len(password) < 6
       THEN /\ last' = AuthStep("register", email,
                           ErrorResponse(HTTP_400_BAD_REQUEST, "Password is too short!"))
            /\ UNCHANGED <<rpc, rreq>>
       ELSE IF Len(username) < 4
       THEN /\ last' = AuthStep("register", email,
                           ErrorResponse(HTTP_400_BAD_REQUEST, "Username is too short!"))
            /\ UNCHANGED <<rpc, rreq>>
       ELSE IF ~validators_email(email)
       THEN /\ last' = AuthStep("register", email,
                           ErrorResponse(HTTP_400_BAD_REQUEST,
                                         "Please enter a valid email address"))
            /\ UNCHANGED <<rpc, rreq>>
       ELSE IF UserByEmail(email) # {}
       THEN /\ last' = AuthStep("register", email,
                           ErrorResponse(HTTP_409_CONFLICT, "This email is already taken!"))
            /\ UNCHANGED <<rpc, rreq>>
       ELSE /\ Cardinality(users) + Cardinality(RegInFlight) < MaxUsers
            /\ rpc' = [rpc EXCEPT ![c] = "username"]
            /\ rreq' = [rreq EXCEPT ![c] =
                           [username |-> username, email |-> email, password |-> password]]
            /\ last' = AuthStep("register_begin", email, Pending)
    /\ UNCHANGED <<users, bookmarks, nextId, pc, req, hits>>

\* The username query of register.
register_check_username(c) ==
    /\ rpc[c] = "username"
    /\ IF UserByUsername(rreq[c].username) # {}
       THEN /\ rpc' = [rpc EXCEPT ![c] = "idle"]
            /\ rreq' = [rreq EXCEPT ![c] = NoReg]
            /\ last' = AuthStep("register", rreq[c].email,
                           ErrorResponse(HTTP_409_CONFLICT, "This username is already taken!"))
       ELSE /\ rpc' = [rpc EXCEPT ![c] = "commit"]
            /\ last' = AuthStep("register_check", rreq[c].email, Pending)
            /\ UNCHANGED rreq
    /\ UNCHANGED <<users, bookmarks, nextId, pc, req, hits>>

\* The unique constraints the user table declares are not checked.
NoUniqueViolation(row) == FALSE

\* unique=True on username and on email: the INSERT fails with IntegrityError.
UniqueViolation(row) ==
    \E x \in users : x.username = row.username \/ x.email = row.email

\* db.session.add(user); db.session.commit(); then the response.
register_commit(c) ==
    /\ rpc[c] = "commit"
    /\ LET user == NewUser(Cardinality(users) + 1, rreq[c])
       IN IF UniqueViolation(user)
          THEN /\ last' = AuthStep("register", user.email, server_error)
               /\ UNCHANGED users
          ELSE /\ users' = users \cup {user}
               /\ last' = AuthStep("register", user.email,
                              Response(HTTP_201_CREATED,
                                  [message |-> "User successfully created",
                                   user |-> [username |-> user.username,
                                             email |-> user.email]]))
    /\ rpc' = [rpc EXCEPT ![c] = "idle"]
    /\ rreq' = [rreq EXCEPT ![c] = NoReg]
    /\ UNCHANGED <<bookmarks, nextId, pc, req, hits>>

\* create_refresh_token / create_access_token(identity=user.id)
create_token(kind, identity) == <<kind, identity>>

\* A login that reports which of the two checks failed.
login_response_telling(found, password) ==
    IF found = {} THEN ErrorResponse(HTTP_404_NOT_FOUND, "No such user")
    ELSE ErrorResponse(HTTP_401_UNAUTHORIZED, "Wrong credentials!")

\* The answer of login given the rows its email query found.
login_response(found, password) ==
    IF \E user \in found : check_password_hash(user.password, password)
    THEN LET user == CHOOSE x \in found : check_password_hash(x.password, password)
         IN Response(HTTP_200_OK,
                [user |-> [refresh |-> create_token("refresh", user.id),
                           access |-> create_token("access", user.id),
                           username |-> user.username, email |-> user.email]])
    ELSE ErrorResponse(HTTP_401_UNAUTHORIZED, "Wrong credentials!")

\* POST /api/v1/auth/login
login(email, password) ==
    /\ last' = AuthStep("login", email, login_response(UserByEmail(email), password))
    /\ UNCHANGED <<users, rpc, rreq, bookmarks, nextId, pc, req, hits>>

\* ------------------------------------------------------------------- Next
Next ==
    \/ \E u \in Users, url \in Urls, body \in CreateBodies : create_begin(u, url, body)
    \/ \E u \in Users, c \in PickedChars : generate_short_char(u, c)
    \/ \E u \in Users : create_commit(u)
    \/ \E u \in Users, page \in Pages, per_page \in PerPages : list_bookmarks(u, page, per_page)
    \/ \E u \in Users : stats(u)
    \/ \E u \in Users, id \in Ids : get_bookmark(u, id)
    \/ \E u \in Users, id \in Ids : delete_bookmark(u, id)
    \/ \E u \in Users, id \in Ids, url \in Urls, body \in EditBodies : edit_bookmark(u, id, url, body)
    \/ \E c \in PickedChars : resolve(c)

Spec == Init /\ [][Next]_vars

\* Creations, deletions and counted resolutions: the runs in which hits is
\* the number of resolution requests served for each row.
NextResolve ==
    \/ \E u \in Users, url \in Urls, body \in CreateBodies : create_begin(u, url, body)
    \/ \E u \in Users, c \in PickedChars : generate_short_char(u, c)
    \/ \E u \in Users : create_commit(u)
    \/ \E u \in Users, id \in Ids : delete_bookmark(u, id)
    \/ \E c \in PickedChars : resolve_counted(c)

SpecResolve == Init /\ [][NextResolve]_vars

\* The url the registered users of SpecAuth post.
AuthUrls == {"https://a.example"}

\* Registrations, logins and the creations of registered users.
NextAuth ==
    \/ \E c \in RegClients, username \in Usernames, email \in Emails,
          password \in RegisterPasswords : register_begin(c, username, email, password)
    \/ \E c \in RegClients : register_check_username(c)
    \/ \E c \in RegClients : register_commit(c)
    \/ \E email \in Emails, password \in LoginPasswords : login(email, password)
    \/ \E u \in Users, url \in AuthUrls, body \in CreateBodies :
          (\E x \in users : x.id = u) /\ create_begin(u, url, body)
    \/ \E u \in Users, c \in PickedChars : generate_short_char(u, c)
    \/ \E u \in Users : create_commit(u)

SpecAuth == InitAuth /\ [][NextAuth]_vars

\* ================================================================= claims
\* A short code as section 3 of the specification defines it.
WellFormedCode(c) == Len(c) = CodeLen /\ \A i \in 1..Len(c) : c[i] \in chars

\* C1: in every reachable state no two bookmarks of the store hold the same
\* short code.
C1_ShortCodesUnique ==
    \A a, b \in bookmarks :
        (a.short_url # None /\ a.short_url = b.short_url) => a = b

C3_CodesWellFormed == \A b \in bookmarks : WellFormedCode(b.short_url)

\* C4: a get, update or delete by a user on a bookmark another user owns
\* answers NotFound, exactly as for an id no bookmark has, and changes no row.
C4_ForeignIsNotFound ==
    [][(/\ last'.op \in {"get", "edit", "delete"}
        /\ \/ \E b \in bookmarks : b.id = last'.id /\ b.user_id # last'.user
           \/ ~ \E b \in bookmarks : b.id = last'.id)
       => (/\ last'.resp.status = HTTP_404_NOT_FOUND
           /\ last'.resp.json = [item |-> "Not found"]
           /\ bookmarks' = bookmarks)]_vars

\* C4 witness: user B's delete of A's bookmark was answered NotFound and the
\* bookmark is still there.
C4_Witness ==
    /\ last.op = "delete"
    /\ last.resp.status = HTTP_404_NOT_FOUND
    /\ \E b \in bookmarks : b.id = last.id /\ b.user_id # last.user

\* C5: resolving a code no bookmark holds answers 404 {"Error": "Not found"}
\* and changes no row.
C5_UnknownCodeNotFound ==
    [][(/\ last'.op = "redirect"
        /\ ~ \E b \in bookmarks : b.short_url = last'.short_url)
       => (/\ last'.resp.status = HTTP_404_NOT_FOUND
           /\ last'.resp.json = [Error |-> "Not found"]
           /\ bookmarks' = bookmarks)]_vars

\* C5 witness: an unknown code was resolved against a store that holds rows.
C5_Witness ==
    /\ last.op = "redirect"
    /\ last.resp.status = HTTP_404_NOT_FOUND
    /\ bookmarks # {}
    /\ ~ \E b \in bookmarks : b.short_url = last.short_url

\* C6: resolving the code of an existing bookmark redirects to the url that
\* bookmark holds (the one its creation or last update wrote).
C6_RedirectsToStoredUrl ==
    [][(/\ last'.op = "redirect"
        /\ \E b \in bookmarks : b.short_url = last'.short_url)
       => (/\ last'.resp.status = HTTP_302_FOUND
           /\ \E b \in bookmarks :
                /\ b.short_url = last'.short_url
                /\ last'.resp.json = [Location |-> b.url])]_vars

C8_CreateAnswersCreated ==
    (last.op = "create" /\ last.id # 0)
    => \E b \in bookmarks :
         /\ b.id = last.id
         /\ b.visit = 0
         /\ b.user_id = last.user
         /\ last.resp.status = HTTP_201_CREATED
         /\ last.resp.json.id = b.id
         /\ last.resp.json.url = b.url
         /\ last.resp.json.visits = 0
         /\ WellFormedCode(b.short_url)
         /\ last.resp.json.short_url = url_root \o b.short_url

\* C9: across every step the visits counter of a surviving bookmark never
\* decreases, and it changes only in a resolution of that bookmark's code that
\* answered with a redirect.
C9_VisitsOnlyByRedirect ==
    [][\A b \in bookmarks, c \in bookmarks' :
         b.id = c.id =>
           /\ c.visit >= b.visit
           /\ c.visit # b.visit =>
                /\ last'.op = "redirect"
                /\ last'.resp.status = HTTP_302_FOUND
                /\ last'.id = b.id]_vars

\* C9 witness: an edit was committed on a bookmark, and its counter is what
\* creation set.
C9_Witness ==
    /\ last.op = "edit"
    /\ last.resp.status \notin {HTTP_404_NOT_FOUND, HTTP_400_BAD_REQUEST}
    /\ \E b \in bookmarks :
         /\ b.id = last.id
         /\ b.updated_at = ImportTime
         /\ b.visit = 0

\* C10: between creation and deletion a bookmark keeps its short code and its
\* owner; an edit changes only url, body and updated_at, a resolution only
\* the visits counter.
C10_CodeAndOwnerImmutable ==
    [][\A b \in bookmarks, c \in bookmarks' :
         b.id = c.id =>
           /\ c.short_url = b.short_url
           /\ c.user_id = b.user_id
           /\ c.created_at = b.created_at
           /\ last'.op = "edit" => c.visit = b.visit
           /\ last'.op = "redirect" =>
                /\ c.url = b.url
                /\ c.body = b.body
                /\ c.updated_at = b.updated_at
           /\ last'.op \notin {"edit", "redirect"} => c = b]_vars

\* C10 witness: an edit changed url and body of a bookmark that holds a code.
C10_Witness ==
    /\ last.op = "edit"
    /\ \E b \in bookmarks :
         /\ b.id = last.id
         /\ b.user_id = last.user
         /\ b.updated_at = ImportTime
         /\ b.body = "note"
         /\ b.short_url # None

C12_CreateEndsWithCodeOrExhausted ==
    (last.op = "create" /\ last.resp.status \notin {0, HTTP_400_BAD_REQUEST})
    => \/ /\ last.id # 0
          /\ \E b \in bookmarks :
               /\ b.id = last.id
               /\ WellFormedCode(b.short_url)
               /\ \A c \in bookmarks : c.short_url = b.short_url => c = b
       \/ /\ last.id = 0
          /\ last.resp.status = HTTP_500_INTERNAL_SERVER_ERROR
          /\ \A code \in PickedChars : \E b \in bookmarks : b.short_url = code

\* C13: when a creation reaches its INSERT with a code that a stored bookmark
\* already holds (both passed the existence check), the store rejects the
\* insertion, no row is added, and the request goes on to select a new code
\* without answering its caller with a failure.
C13_DuplicateInsertRetried ==
    [][\A u \in Users :
         (/\ create_commit(u)
          /\ req[u].short_url # None
          /\ \E b \in bookmarks : b.short_url = req[u].short_url)
         => (/\ bookmarks' = bookmarks
             /\ pc'[u] = "generate"
             /\ last'.resp.status = 0)]_vars

\* C14: a create, update, delete or resolve that answers its caller with a
\* failure (BadRequest, NotFound, Conflict or a server error) has added,
\* changed and removed no bookmark.
C14_FailureLeavesStore ==
    [][(/\ last'.op \in {"create", "edit", "delete", "redirect"}
        /\ last'.resp.status >= HTTP_400_BAD_REQUEST)
       => bookmarks' = bookmarks]_vars

\* C15: a creation whose url a stored bookmark already holds is answered
\* Conflict (409) and adds no bookmark; a registration whose email or username
\* a stored user already has is answered Conflict (409) and adds no user.
C15_DuplicateIsConflict ==
    [][/\ \A u \in Users, url \in ValidUrls, body \in CreateBodies :
            (create_begin(u, url, body) /\ \E b \in bookmarks : b.url = url)
            => (/\ last'.resp.status = HTTP_409_CONFLICT
                /\ bookmarks' = bookmarks)
       /\ \A c \in RegClients, username \in Usernames, email \in ValidEmails,
             password \in RegisterPasswords :
            (/\ register_begin(c, username, email, password)
             /\ Len(password) >= 6 /\ Len(username) >= 4
             /\ \E x \in users : x.email = email)
            => (/\ last'.resp.status = HTTP_409_CONFLICT
                /\ users' = users)
       /\ \A c \in RegClients :
            (/\ register_check_username(c)
             /\ \E x \in users : x.username = rreq[c].username)
            => (/\ last'.resp.status = HTTP_409_CONFLICT
                /\ users' = users)]_vars

\* C16: no two stored users share a username and no two share an email,
\* whatever the interleaving of the email query, the username query and the
\* insert of concurrent registrations.
C16_UsersUnique ==
    \A x, y \in users :
        (x.username = y.username \/ x.email = y.email) => x = y

\* A registration passed both queries and was refused by the unique
\* constraint, because a concurrent one stored the same email first.
C16_Witness ==
    /\ last.op = "register"
    /\ last.resp.status = HTTP_500_INTERNAL_SERVER_ERROR
    /\ \E x \in users : x.email = last.email

\* C17: a delete of bookmark b by its owner answers NoContent and removes
\* exactly b; in the state it leaves, the owner's get-by-id of b finds no row
\* and the resolution of b's former code finds no row (both then answer
\* NotFound), and every other bookmark is as it was.
C17_DeleteRemovesExactly ==
    [][\A u \in Users, id \in Ids :
          \A b \in ByIdAndUser(id, u) :
             delete_bookmark(u, id)
             => (/\ last'.resp.status = HTTP_204_NO_CONTENT
                 /\ bookmarks' = bookmarks \ {b}
                 /\ \A x \in bookmarks' : ~(x.id = id /\ x.user_id = u)
                 /\ b.short_url # None
                    => \A x \in bookmarks' : x.short_url # b.short_url)]_vars

\* C18: the stats operation of user U answers with exactly the bookmarks U
\* owns, and the list operation of U answers with bookmarks U owns only; no
\* bookmark of another user is in either result.
C18_ListAndStatsScoped ==
    /\ (last.op = "stats")
       => (/\ last.resp.status = HTTP_200_OK
           /\ {last.resp.json.stats[i].id : i \in DOMAIN last.resp.json.stats}
                 = {b.id : b \in ByUser(last.user)})
    /\ (last.op = "list" /\ last.resp.status = HTTP_200_OK)
       => (\A i \in DOMAIN last.resp.json.results :
              \E b \in ByUser(last.user) : b.id = last.resp.json.results[i].id)

\* C19: after any sequence of creations, updates and deletes by any users,
\* no two stored bookmarks have the same url, whoever owns them.
C19_UrlsUnique ==
    \A a, b \in bookmarks : a.url = b.url => a = b

\* C20: a login with an email no user has and a login with a registered
\* email and a wrong password get the same answer (Unauthorized, "Wrong
\* credentials!"), and no login, served or refused, changes a user or a
\* bookmark record.
C20_LoginTellsNothing ==
    [][/\ (last'.op = "login") => (users' = users /\ bookmarks' = bookmarks)
       /\ \A email \in Emails, password \in LoginPasswords :
            (/\ login(email, password)
             /\ \/ UserByEmail(email) = {}
                \/ \A x \in UserByEmail(email) :
                      ~check_password_hash(x.password, password))
            => last'.resp = ErrorResponse(HTTP_401_UNAUTHORIZED,
                                          "Wrong credentials!")]_vars

\* A login with a registered email and a wrong password was refused, while
\* another email of the input set is still unregistered and a bookmark is stored.
C20_Witness ==
    /\ last.op = "login"
    /\ last.resp.status = HTTP_401_UNAUTHORIZED
    /\ \E x \in users : x.email = last.email
    /\ \E email \in ValidEmails : \A x \in users : x.email # email
    /\ bookmarks # {}
====
